---- MODULE Spec2Model ----
(***************************************************************************)
(* Coarse-graining layer of pyDrop (pyDrop/clustering/course_graining.py). *)
(*                                                                         *)
(* Numbers.  The bin functions work on Python floats.  Every strategy the  *)
(* model instantiates has integer parameters and an even bin width (mod,   *)
(* step), and every value is an integer, so that value-rem, (value-rem)/   *)
(* mod truncated, (value-min)//step, idx*step, mod/2 and step/2 are all    *)
(* exact in binary floating point and are modelled by integer arithmetic.  *)
(*                                                                         *)
(* Arrays.  A numpy array is a record [ndim, data]: data is a sequence of  *)
(* rows (ndim = 2, every row of the same length) or of numbers (ndim = 1). *)
(*                                                                         *)
(* External models.  The sklearn estimators are outside the repository.    *)
(* An estimator is a record of the parameters the wrappers set (init,      *)
(* n_init) and of its fitted state (n_features_in_, cluster_centers_);     *)
(* fitting it on a matrix records the matrix' width and one of its rows as *)
(* the cluster centre, chosen nondeterministically.                        *)
(***************************************************************************)
EXTENDS Integers, Sequences, FiniteSets, TLC

VARIABLES
    bin_functions,  \* Bins.bin_functions of the wrapper's Bins object
    model,          \* the wrapper's template model (self.model)
    coarse_model,   \* self.coarse_model
    fine_model,     \* KMCalico: self.fine_model
    cls,            \* class of the wrapper: "CGCluster" or "KMCalico"
    last,           \* the last call on the wrapper or its Bins: arguments, locals, outcome
    binf,           \* bin-function harness: the strategy under test
    bcall,          \* bin-function harness: the last element-wise call and its result
    default_bins,   \* bin_functions of the Bins() objects that are the defaults of bins=
    wrappers,       \* two wrappers constructed without arguments
    wlast           \* the last call on one of the two wrappers

vars == <<bin_functions, model, coarse_model, fine_model, cls, last, binf, bcall,
          default_bins, wrappers, wlast>>

-----------------------------------------------------------------------------
(* Bounds *)

MaxRows == 2        \* rows of an input matrix
MaxAxes == 2        \* axes a Bins object may hold before the model stops adding
MaxBins == 3        \* n_bins of a LinSpaceBins under test
MaxHalfWidth == 2   \* half of the bin width (mod/2, step/2) of a strategy under test
MaxRem == 1         \* rem of a ModuloBins, min of a LinSpaceBins under test
Margin == 5         \* how far outside the bins the tested values and ids reach

-----------------------------------------------------------------------------
(* Integer helpers *)

\* Python int(a/b) for b > 0: the quotient truncated towards zero.
IntTrunc(a, b) == IF a >= 0 THEN a \div b ELSE -((-a) \div b)

\* Python a // b for b > 0: the quotient rounded down.
FloorDiv(a, b) == a \div b

-----------------------------------------------------------------------------
(* ModuloBins *)

ModuloBins(mod, rem) == [kind |-> "ModuloBins", mod |-> mod, rem |-> rem,
                         min |-> 0, max |-> 0, n_bins |-> 0, step |-> 0]

ModuloBins_id_to_bin_start(self, idx) == idx * self.mod + self.rem

ModuloBins_id_to_bin_center(self, idx) == (idx * self.mod + self.rem) + (self.mod \div 2)

ModuloBins_value_to_id(self, value) == IntTrunc(value - self.rem, self.mod)

-----------------------------------------------------------------------------
(* LinSpaceBins *)

LinSpaceBins(min, max, n_bins) ==
    [kind |-> "LinSpaceBins", mod |-> 0, rem |-> 0,
     min |-> min, max |-> max, n_bins |-> n_bins, step |-> (max - min) \div n_bins]

LinSpaceBins_id_to_bin_start(self, idx) ==
    IF idx >= self.n_bins THEN self.max - self.step
    ELSE IF idx < 0 THEN self.min
    ELSE self.min + idx * self.step

LinSpaceBins_id_to_bin_center_unclamped(self, idx) ==
    self.min + idx * self.step + (self.step \div 2)

LinSpaceBins_id_to_bin_center(self, idx) ==
    IF idx >= self.n_bins THEN self.max - (self.step \div 2)
    ELSE IF idx < 0 THEN self.min + (self.step \div 2)
    ELSE self.min + idx * self.step + (self.step \div 2)

LinSpaceBins_value_to_id_unclamped(self, value) ==
    IF value <= self.min THEN 0
    ELSE FloorDiv(value - self.min, self.step)

LinSpaceBins_value_to_id(self, value) ==
    IF value <= self.min THEN 0
    ELSE IF value > self.max THEN self.n_bins
    ELSE FloorDiv(value - self.min, self.step)

-----------------------------------------------------------------------------
(* The three vectorised methods every strategy offers, applied to one element *)

value_to_id(self, value) ==
    IF self.kind = "ModuloBins" THEN ModuloBins_value_to_id(self, value)
    ELSE LinSpaceBins_value_to_id(self, value)

id_to_bin_start(self, idx) ==
    IF self.kind = "ModuloBins" THEN ModuloBins_id_to_bin_start(self, idx)
    ELSE LinSpaceBins_id_to_bin_start(self, idx)

id_to_bin_center(self, idx) ==
    IF self.kind = "ModuloBins" THEN ModuloBins_id_to_bin_center(self, idx)
    ELSE LinSpaceBins_id_to_bin_center(self, idx)

-----------------------------------------------------------------------------
(* numpy arrays *)

NoArray == [ndim |-> 0, data |-> <<>>]

Array1(xs) == [ndim |-> 1, data |-> xs]

Array2(rows) == [ndim |-> 2, data |-> rows]

\* a.shape
Shape(a) ==
    IF a.ndim = 1 THEN <<Len(a.data)>>
    ELSE <<Len(a.data), Len(a.data[1])>>

\* a.reshape(-1, 1) of a 1-D array: one column
ReshapeColumn(a) == Array2([r \in 1..Len(a.data) |-> <<a.data[r]>>])

\* lexicographic order on rows of equal length
LexLess(a, b) ==
    \E i \in 1..Len(a) :
        /\ a[i] < b[i]
        /\ \A j \in 1..(i - 1) : a[j] = b[j]

MinRow(S) == CHOOSE r \in S : \A q \in S : q = r \/ LexLess(r, q)

RECURSIVE SortRows(_)
SortRows(S) ==
    IF S = {} THEN <<>>
    ELSE <<MinRow(S)>> \o SortRows(S \ {MinRow(S)})

RowSet(a) == {a.data[r] : r \in 1..Len(a.data)}

np_unique_keep_duplicates(a) == a

\* np.unique(a, axis=0): the distinct rows, sorted
np_unique(a) == Array2(SortRows(RowSet(a)))

-----------------------------------------------------------------------------
(* Bins *)

NoBinf == [kind |-> "None", mod |-> 0, rem |-> 0,
           min |-> 0, max |-> 0, n_bins |-> 0, step |-> 0]

\* Bins.default_binf(): ModuloBins() with its default parameters
default_binf == ModuloBins(100, 0)

add_axis(fns, bf) ==
    IF bf = NoBinf THEN Append(fns, default_binf)
    ELSE Append(fns, bf)

RECURSIVE add_axes(_, _)
add_axes(fns, binfs) ==
    IF binfs = <<>> THEN fns
    ELSE add_axes(add_axis(fns, Head(binfs)), Tail(binfs))

get_num_axes(fns) == Len(fns)

\* Each matrix method returns [exc, val]: exc is "AssertionError" when the assert
\* on the column count fails, and "none" with the result in val otherwise.
Bins_id_to_bin_start(fns, ids) ==
    LET a2 == IF Len(Shape(ids)) = 1 THEN ReshapeColumn(ids) ELSE ids
        n_samples == Shape(a2)[1]
        n_features == Shape(a2)[2]
    IN  IF n_features # Len(fns)
        THEN [exc |-> "AssertionError", val |-> NoArray]
        ELSE [exc |-> "none",
              val |-> Array2([r \in 1..n_samples |->
                                [c \in 1..n_features |-> id_to_bin_start(fns[c], a2.data[r][c])]])]

Bins_id_to_bin_center(fns, ids) ==
    LET a2 == IF Len(Shape(ids)) = 1 THEN ReshapeColumn(ids) ELSE ids
        n_samples == Shape(a2)[1]
        n_features == Shape(a2)[2]
    IN  IF n_features # Len(fns)
        THEN [exc |-> "AssertionError", val |-> NoArray]
        ELSE [exc |-> "none",
              val |-> Array2([r \in 1..n_samples |->
                                [c \in 1..n_features |-> id_to_bin_center(fns[c], a2.data[r][c])]])]

\* value_to_id without its assert: zip() stops at the shorter of the two
Bins_value_to_id_no_assert(fns, values) ==
    LET a2 == IF Len(Shape(values)) = 1 THEN ReshapeColumn(values) ELSE values
        n_samples == Shape(a2)[1]
        n_features == Shape(a2)[2]
    IN  [exc |-> "none",
         val |-> Array2([r \in 1..n_samples |->
                           [c \in 1..n_features |->
                              IF c <= Len(fns) THEN value_to_id(fns[c], a2.data[r][c]) ELSE 0]])]

Bins_value_to_id(fns, values) ==
    LET a2 == IF Len(Shape(values)) = 1 THEN ReshapeColumn(values) ELSE values
        n_samples == Shape(a2)[1]
        n_features == Shape(a2)[2]
    IN  IF n_features # Len(fns)
        THEN [exc |-> "AssertionError", val |-> NoArray]
        ELSE [exc |-> "none",
              val |-> Array2([r \in 1..n_samples |->
                                [c \in 1..n_features |-> value_to_id(fns[c], a2.data[r][c])]])]

-----------------------------------------------------------------------------
(* External estimators (sklearn): the interface the wrappers use *)

InitMethod(name) == [method |-> name, centers |-> NoArray]

InitArray(centers) == [method |-> "array", centers |-> centers]

\* A freshly constructed, unfitted estimator: OPTICS() or KMeans()
Estimator(kind) == [kind |-> kind, init |-> InitMethod("k-means++"), n_init |-> "default",
                    n_features_in_ |-> 0, cluster_centers_ |-> NoArray]

\* Placeholder for an attribute the class does not have (CGCluster has no fine_model)
NoEstimator == [kind |-> "absent", init |-> InitMethod("absent"), n_init |-> "absent",
                n_features_in_ |-> 0, cluster_centers_ |-> NoArray]

deepcopy(m) == m

set_params_n_init(m, n_init) == [m EXCEPT !.n_init = n_init]

set_params_init(m, centers) == [m EXCEPT !.init = InitArray(centers)]

\* The outcomes a fit of m can have: a KMeans started at random finds one of two
\* centres; a KMeans seeded with explicit centres (and n_init = 1) is deterministic;
\* an OPTICS has no cluster_centers_.
FitOutcomes(m) ==
    IF m.kind = "KMeans" /\ m.init.method # "array" THEN BOOLEAN ELSE {TRUE}

\* m.fit(data): the fitted state is renewed.  The centre a KMeans finds is the first
\* row of the data (first) or the last.
ExtFit(m, data, first) ==
    [m EXCEPT !.n_features_in_ = Shape(data)[2],
              !.cluster_centers_ =
                  IF m.kind # "KMeans" THEN NoArray
                  ELSE IF first \/ m.init.method = "array" THEN Array2(<<data.data[1]>>)
                  ELSE Array2(<<data.data[Len(data.data)]>>)]

\* m.predict(X): fails on an unfitted estimator and on a matrix of another width
ExtPredict(m, X) ==
    IF m.n_features_in_ = 0 THEN "NotFittedError"
    ELSE IF m.n_features_in_ # Shape(X)[2] THEN "ValueError"
    ELSE "none"

Call(target, method, arg) == [target |-> target, method |-> method, arg |-> arg]

-----------------------------------------------------------------------------
(* CGCluster.  self is [bins, model, coarse_model, fine_model]. *)

\* the default of fit_uniform_coarse_grain's binf parameter: ModuloBins(100)
uniform_binf == ModuloBins(100, 0)

fit_uniform_coarse_grain(fns, n_features, bf) ==
    add_axes(fns, [i \in 1..n_features |-> bf])

\* the branch coarse_grain takes after counting the axes
cg_branch_raise_first(n_defined_bins, n_features) ==
    IF n_defined_bins < n_features THEN "raise"
    ELSE IF n_defined_bins = 0 THEN "autofill"
    ELSE "proceed"

cg_branch_raise_on_equal(n_defined_bins, n_features) ==
    IF n_defined_bins = 0 THEN "autofill"
    ELSE IF n_defined_bins <= n_features THEN "raise"
    ELSE "proceed"

cg_branch(n_defined_bins, n_features) ==
    IF n_defined_bins = 0 THEN "autofill"
    ELSE IF n_defined_bins < n_features THEN "raise"
    ELSE "proceed"

NoLocals == [n_features |-> 0, n_defined_bins |-> 0,
             x_grained_bins |-> NoArray, unique_bins |-> NoArray]

\* coarse_grain returns [exc, bins, locals, ret]: the exception raised ("none" when
\* it returns), the axes of self.bins afterwards, its local variables and its result.
coarse_grain(fns, X) ==
    LET n_features == Shape(X)[2]
        n_defined_bins == get_num_axes(fns)
        loc == [NoLocals EXCEPT !.n_features = n_features,
                                !.n_defined_bins = n_defined_bins]
        branch == cg_branch(n_defined_bins, n_features)
    IN  IF branch = "raise"
        THEN [exc |-> "AmbiguousCGFunction", bins |-> fns, locals |-> loc, ret |-> NoArray]
        ELSE
          LET fns2 == IF branch = "autofill"
                      THEN fit_uniform_coarse_grain(fns, n_features, uniform_binf)
                      ELSE fns
              ids == Bins_value_to_id(fns2, X)
          IN  IF ids.exc # "none"
              THEN [exc |-> ids.exc, bins |-> fns2, locals |-> loc, ret |-> NoArray]
              ELSE
                LET uniq == np_unique(ids.val)
                    centers == Bins_id_to_bin_center(fns2, uniq)
                IN  [exc |-> centers.exc, bins |-> fns2,
                     locals |-> [loc EXCEPT !.x_grained_bins = ids.val,
                                            !.unique_bins = uniq],
                     ret |-> centers.val]

\* fit, predict and scores return [self, exc, cg, calls, ret]: the object afterwards,
\* the exception raised, what coarse_grain returned (fit), the calls made on the
\* estimators in order, and the names of the values returned.
NoCG == [exc |-> "none", bins |-> <<>>, locals |-> NoLocals, ret |-> NoArray]

CGCluster_fit(self, X, first) ==
    LET cg == coarse_grain(self.bins, X)
    IN  IF cg.exc # "none"
        THEN [self |-> [self EXCEPT !.bins = cg.bins],
              exc |-> cg.exc, cg |-> cg, calls |-> <<>>, ret |-> {}]
        ELSE [self |-> [self EXCEPT !.bins = cg.bins,
                                    !.coarse_model = ExtFit(@, cg.ret, first)],
              exc |-> "none", cg |-> cg,
              calls |-> <<Call("coarse_model", "fit", cg.ret)>>, ret |-> {}]

\* predict whose "default" mode fits the working copy instead of the template
CGCluster_predict_fits_coarse(self, X, mode, first) ==
    IF mode = "coarse"
    THEN [self |-> self, exc |-> ExtPredict(self.coarse_model, X), cg |-> NoCG,
          calls |-> <<Call("coarse_model", "predict", X)>>, ret |-> {"y_pred"}]
    ELSE IF mode = "default"
    THEN [self |-> [self EXCEPT !.coarse_model = ExtFit(@, X, first)], exc |-> "none",
          cg |-> NoCG, calls |-> <<Call("coarse_model", "fit_predict", X)>>,
          ret |-> {"y_pred"}]
    ELSE [self |-> self, exc |-> "ModelValueError", cg |-> NoCG, calls |-> <<>>, ret |-> {}]

CGCluster_predict(self, X, mode, first) ==
    IF mode = "coarse"
    THEN [self |-> self, exc |-> ExtPredict(self.coarse_model, X), cg |-> NoCG,
          calls |-> <<Call("coarse_model", "predict", X)>>, ret |-> {"y_pred"}]
    ELSE IF mode = "default"
    THEN [self |-> [self EXCEPT !.model = ExtFit(@, X, first)], exc |-> "none",
          cg |-> NoCG, calls |-> <<Call("model", "fit_predict", X)>>, ret |-> {"y_pred"}]
    ELSE [self |-> self, exc |-> "ModelValueError", cg |-> NoCG, calls |-> <<>>, ret |-> {}]

ScoreNames == {"rand_score", "homogeneity_score", "completeness_score", "n_misclassified"}

-----------------------------------------------------------------------------
(* KMCalico *)

\* fit whose fine model is trained on the coarse-grained matrix
KMCalico_fit_on_coarse(self, X, first) ==
    LET cg == coarse_grain(self.bins, X)
    IN  IF cg.exc # "none"
        THEN [self |-> [self EXCEPT !.bins = cg.bins],
              exc |-> cg.exc, cg |-> cg, calls |-> <<>>, ret |-> {}]
        ELSE
          LET coarse == ExtFit(self.coarse_model, cg.ret, first)
              coarse_centers == coarse.cluster_centers_
              seeded == set_params_init(self.fine_model, coarse_centers)
              fine == ExtFit(seeded, cg.ret, TRUE)
          IN  [self |-> [self EXCEPT !.bins = cg.bins,
                                     !.coarse_model = coarse,
                                     !.fine_model = fine],
               exc |-> "none", cg |-> cg,
               calls |-> <<Call("coarse_model", "fit", cg.ret),
                           Call("coarse_model", "cluster_centers_", coarse_centers),
                           Call("fine_model", "set_params(init)", coarse_centers),
                           Call("fine_model", "fit", cg.ret)>>,
               ret |-> {}]

KMCalico_fit(self, X, first) ==
    LET cg == coarse_grain(self.bins, X)
    IN  IF cg.exc # "none"
        THEN [self |-> [self EXCEPT !.bins = cg.bins],
              exc |-> cg.exc, cg |-> cg, calls |-> <<>>, ret |-> {}]
        ELSE
          LET coarse == ExtFit(self.coarse_model, cg.ret, first)
              coarse_centers == coarse.cluster_centers_
              seeded == set_params_init(self.fine_model, coarse_centers)
              fine == ExtFit(seeded, X, TRUE)
          IN  [self |-> [self EXCEPT !.bins = cg.bins,
                                     !.coarse_model = coarse,
                                     !.fine_model = fine],
               exc |-> "none", cg |-> cg,
               calls |-> <<Call("coarse_model", "fit", cg.ret),
                           Call("coarse_model", "cluster_centers_", coarse_centers),
                           Call("fine_model", "set_params(init)", coarse_centers),
                           Call("fine_model", "fit", X)>>,
               ret |-> {}]

KMCalico_predict(self, X, mode, return_centers, first) ==
    LET names == IF return_centers THEN {"y_pred", "centers"} ELSE {"y_pred"}
    IN  IF mode = "fine"
        THEN [self |-> self, exc |-> ExtPredict(self.fine_model, X), cg |-> NoCG,
              calls |-> <<Call("fine_model", "predict", X)>>, ret |-> names]
        ELSE IF mode = "coarse"
        THEN [self |-> self, exc |-> ExtPredict(self.coarse_model, X), cg |-> NoCG,
              calls |-> <<Call("coarse_model", "predict", X)>>, ret |-> names]
        ELSE IF mode = "default"
        THEN [self |-> [self EXCEPT !.model = ExtFit(@, X, first)], exc |-> "none",
              cg |-> NoCG, calls |-> <<Call("model", "fit_predict", X)>>, ret |-> names]
        ELSE [self |-> self, exc |-> "ModelValueError", cg |-> NoCG,
              calls |-> <<>>, ret |-> {}]

\* self.predict(X, model=model) of the object's class
predict(c, self, X, mode, return_centers, first) ==
    IF c = "KMCalico" THEN KMCalico_predict(self, X, mode, return_centers, first)
    ELSE CGCluster_predict(self, X, mode, first)

\* scores is inherited by KMCalico: it predicts, then calls the three metric functions
CGCluster_scores(c, self, X, mode, first) ==
    LET p == predict(c, self, X, mode, FALSE, first)
    IN  IF p.exc # "none" THEN [p EXCEPT !.ret = {}]
        ELSE [p EXCEPT !.ret = ScoreNames]

-----------------------------------------------------------------------------
(* Inputs *)

FeatureCounts == {1, 2}

Values == {20, 60}

IdValues == {0, 1}

\* the strategies a caller configures axes with
AxisChoices == {ModuloBins(100, 0), LinSpaceBins(0, 100, 2)}

\* Row order has no effect on any operation but the choice of the row an estimator
\* reports as its centre, so matrices are given with their rows in ascending order.
Ascending(d) ==
    \A i \in 1..(Len(d) - 1) : d[i] = d[i + 1] \/ LexLess(d[i], d[i + 1])

MatricesOver(V, rows) ==
    {Array2(d) : d \in {e \in UNION {[1..r -> [1..n -> V]] : r \in 1..rows,
                                                          n \in FeatureCounts} :
                          Ascending(e)}}

VectorsOver(V) == {Array1(d) : d \in UNION {[1..r -> V] : r \in 1..MaxRows}}

\* the training matrices
Matrices == MatricesOver(Values, MaxRows)

\* the one-row matrices handed to the Bins methods directly
Samples == MatricesOver(Values, 1)

\* the matrices handed to predict and scores: one sample of each width
Queries == MatricesOver({20}, 1)

Modes == {"coarse", "default", "fine", "other"}

-----------------------------------------------------------------------------
(* State *)

Self == [bins |-> bin_functions, model |-> model,
         coarse_model |-> coarse_model, fine_model |-> fine_model]

NoCall == [op |-> "init", exc |-> "none", X |-> NoArray, mode |-> "", binf |-> NoBinf,
           n |-> 0, n_axes_before |-> 0, cg |-> NoCG, calls |-> <<>>, ret |-> {},
           val |-> NoArray]

NoBinCall == [op |-> "init", value |-> 0, idx |-> 0, start |-> 0, center |-> 0]

Harness_idle ==
    /\ binf = default_binf
    /\ bcall = NoBinCall

\* CGCluster(Bins(), OPTICS())
CGCluster_init ==
    /\ cls = "CGCluster"
    /\ bin_functions = <<>>
    /\ model = Estimator("OPTICS")
    /\ coarse_model = deepcopy(Estimator("OPTICS"))
    /\ fine_model = NoEstimator
    /\ last = NoCall

\* KMCalico(Bins(), KMeans())
KMCalico_init ==
    /\ cls = "KMCalico"
    /\ bin_functions = <<>>
    /\ model = Estimator("KMeans")
    /\ coarse_model = set_params_n_init(deepcopy(Estimator("KMeans")), "auto")
    /\ fine_model = set_params_n_init(deepcopy(Estimator("KMeans")), "1")
    /\ last = NoCall

SetSelf(r) ==
    /\ bin_functions' = r.self.bins
    /\ model' = r.self.model
    /\ coarse_model' = r.self.coarse_model
    /\ fine_model' = r.self.fine_model

-----------------------------------------------------------------------------
(* Two wrappers constructed without arguments *)

Classes == {"CGCluster", "KMCalico"}

WrapperIds == {1, 2}

\* bins=Bins() in the signature of an __init__ is evaluated once, when the def
\* statement runs: each __init__ owns one Bins object, named here by its class,
\* and hands that same object to every instance constructed without bins.
DefaultBins == [c \in Classes |-> <<>>]

\* CGCluster() / KMCalico(): self.bins is a reference to the default object.  The
\* field used records whether a method of the wrapper has been called since.
Construct(c) ==
    IF c = "KMCalico"
    THEN [cls |-> c, bins |-> c, model |-> Estimator("KMeans"),
          coarse_model |-> set_params_n_init(deepcopy(Estimator("KMeans")), "auto"),
          fine_model |-> set_params_n_init(deepcopy(Estimator("KMeans")), "1"),
          used |-> FALSE]
    ELSE [cls |-> c, bins |-> c, model |-> Estimator("OPTICS"),
          coarse_model |-> deepcopy(Estimator("OPTICS")),
          fine_model |-> NoEstimator, used |-> FALSE]

\* self of wrapper w, its Bins object dereferenced
PairSelf(w) ==
    [bins |-> default_bins[wrappers[w].bins], model |-> wrappers[w].model,
     coarse_model |-> wrappers[w].coarse_model, fine_model |-> wrappers[w].fine_model]

Other(w) == 3 - w

NoPairCall == [w |-> 0, op |-> "init", exc |-> "none", X |-> NoArray, fresh |-> FALSE,
               n_axes_before |-> 0, other_before |-> <<>>]

PairCall(w, op, exc, X) ==
    [w |-> w, op |-> op, exc |-> exc, X |-> X, fresh |-> ~wrappers[w].used,
     n_axes_before |-> get_num_axes(PairSelf(w).bins),
     other_before |-> PairSelf(Other(w)).bins]

Pair_idle ==
    /\ default_bins = DefaultBins
    /\ wrappers = [w \in WrapperIds |-> Construct("CGCluster")]
    /\ wlast = NoPairCall

-----------------------------------------------------------------------------
(* Calls on the Bins object *)

AddAxis ==
    \E bf \in AxisChoices \cup {NoBinf} :
        /\ get_num_axes(bin_functions) < MaxAxes
        /\ bin_functions' = add_axis(bin_functions, bf)
        /\ last' = [NoCall EXCEPT !.op = "add_axis", !.binf = bf,
                                  !.n_axes_before = get_num_axes(bin_functions)]
        /\ UNCHANGED <<model, coarse_model, fine_model, cls, binf, bcall,
                         default_bins, wrappers, wlast>>

AddAxes ==
    \E b1 \in AxisChoices, b2 \in AxisChoices :
        /\ get_num_axes(bin_functions) + 2 <= MaxAxes
        /\ bin_functions' = add_axes(bin_functions, <<b1, b2>>)
        /\ last' = [NoCall EXCEPT !.op = "add_axes", !.n = 2,
                                  !.n_axes_before = get_num_axes(bin_functions)]
        /\ UNCHANGED <<model, coarse_model, fine_model, cls, binf, bcall,
                         default_bins, wrappers, wlast>>

BinsValueToId ==
    \E values \in Samples \cup VectorsOver(Values) :
        \E r \in {Bins_value_to_id(bin_functions, values)} :
            /\ last' = [NoCall EXCEPT !.op = "Bins.value_to_id", !.exc = r.exc,
                                      !.X = values, !.val = r.val,
                                      !.n_axes_before = get_num_axes(bin_functions)]
            /\ UNCHANGED <<bin_functions, model, coarse_model, fine_model, cls, binf, bcall,
                         default_bins, wrappers, wlast>>

BinsIdToBinStart ==
    \E ids \in MatricesOver(IdValues, 1) \cup VectorsOver(IdValues) :
        \E r \in {Bins_id_to_bin_start(bin_functions, ids)} :
            /\ last' = [NoCall EXCEPT !.op = "Bins.id_to_bin_start", !.exc = r.exc,
                                      !.X = ids, !.val = r.val,
                                      !.n_axes_before = get_num_axes(bin_functions)]
            /\ UNCHANGED <<bin_functions, model, coarse_model, fine_model, cls, binf, bcall,
                         default_bins, wrappers, wlast>>

BinsIdToBinCenter ==
    \E ids \in MatricesOver(IdValues, 1) \cup VectorsOver(IdValues) :
        \E r \in {Bins_id_to_bin_center(bin_functions, ids)} :
            /\ last' = [NoCall EXCEPT !.op = "Bins.id_to_bin_center", !.exc = r.exc,
                                      !.X = ids, !.val = r.val,
                                      !.n_axes_before = get_num_axes(bin_functions)]
            /\ UNCHANGED <<bin_functions, model, coarse_model, fine_model, cls, binf, bcall,
                         default_bins, wrappers, wlast>>

-----------------------------------------------------------------------------
(* Calls on the wrapper *)

FitUniformCoarseGrain ==
    \E n_features \in FeatureCounts, bf \in AxisChoices :
        /\ get_num_axes(bin_functions) + n_features <= MaxAxes
        /\ bin_functions' = fit_uniform_coarse_grain(bin_functions, n_features, bf)
        /\ last' = [NoCall EXCEPT !.op = "fit_uniform_coarse_grain", !.binf = bf,
                                  !.n = n_features,
                                  !.n_axes_before = get_num_axes(bin_functions)]
        /\ UNCHANGED <<model, coarse_model, fine_model, cls, binf, bcall,
                         default_bins, wrappers, wlast>>

CoarseGrain ==
    \E X \in Matrices :
        \E r \in {coarse_grain(bin_functions, X)} :
            /\ bin_functions' = r.bins
            /\ last' = [NoCall EXCEPT !.op = "coarse_grain", !.exc = r.exc, !.X = X,
                                      !.cg = r, !.val = r.ret,
                                      !.n_axes_before = get_num_axes(bin_functions)]
            /\ UNCHANGED <<model, coarse_model, fine_model, cls, binf, bcall,
                         default_bins, wrappers, wlast>>

Fit ==
    \E X \in Matrices, first \in FitOutcomes(coarse_model) :
        \E r \in {IF cls = "KMCalico" THEN KMCalico_fit(Self, X, first)
                  ELSE CGCluster_fit(Self, X, first)} :
            /\ SetSelf(r)
            /\ last' = [NoCall EXCEPT !.op = "fit", !.exc = r.exc, !.X = X, !.cg = r.cg,
                                      !.calls = r.calls, !.ret = r.ret,
                                      !.n_axes_before = get_num_axes(bin_functions)]
            /\ UNCHANGED <<cls, binf, bcall,
                         default_bins, wrappers, wlast>>

Predict ==
    \E X \in Queries, mode \in Modes, first \in FitOutcomes(model),
       return_centers \in (IF cls = "KMCalico" THEN BOOLEAN ELSE {FALSE}) :
        \E r \in {predict(cls, Self, X, mode, return_centers, first)} :
            /\ SetSelf(r)
            /\ last' = [NoCall EXCEPT !.op = "predict", !.exc = r.exc, !.X = X,
                                      !.mode = mode, !.calls = r.calls, !.ret = r.ret,
                                      !.n_axes_before = get_num_axes(bin_functions)]
            /\ UNCHANGED <<cls, binf, bcall,
                         default_bins, wrappers, wlast>>

Scores ==
    \E X \in Queries, mode \in Modes, first \in FitOutcomes(model) :
        \E r \in {CGCluster_scores(cls, Self, X, mode, first)} :
            /\ SetSelf(r)
            /\ last' = [NoCall EXCEPT !.op = "scores", !.exc = r.exc, !.X = X,
                                      !.mode = mode, !.calls = r.calls, !.ret = r.ret,
                                      !.n_axes_before = get_num_axes(bin_functions)]
            /\ UNCHANGED <<cls, binf, bcall,
                         default_bins, wrappers, wlast>>

-----------------------------------------------------------------------------
(* Specifications *)

\* A CGCluster and its Bins: configuring axes and coarse-graining
Init ==
    /\ CGCluster_init
    /\ Harness_idle
    /\ Pair_idle

Next ==
    \/ AddAxis
    \/ AddAxes
    \/ FitUniformCoarseGrain
    \/ CoarseGrain
    \/ BinsValueToId
    \/ BinsIdToBinStart
    \/ BinsIdToBinCenter

Spec == Init /\ [][Next]_vars

\* A CGCluster and its estimators: fitting, predicting, scoring
NextFit ==
    \/ AddAxis
    \/ FitUniformCoarseGrain
    \/ CoarseGrain
    \/ Fit
    \/ Predict
    \/ Scores

SpecFit == Init /\ [][NextFit]_vars

\* A KMCalico and its three estimators
InitKM ==
    /\ KMCalico_init
    /\ Harness_idle
    /\ Pair_idle

NextKM ==
    \/ AddAxis
    \/ FitUniformCoarseGrain
    \/ Fit
    \/ Predict

SpecKM == InitKM /\ [][NextKM]_vars

\* One bin function on its own: a value is coarse-grained (value -> id -> bin start
\* and centre), or an id is mapped back to its bin
ModuloTests ==
    {ModuloBins(2 * h, rem) : h \in 1..MaxHalfWidth, rem \in (-MaxRem)..MaxRem}

LinSpaceTests ==
    {LinSpaceBins(min, min + n_bins * 2 * h, n_bins) :
        min \in (-MaxRem)..MaxRem, n_bins \in 1..MaxBins, h \in 1..MaxHalfWidth}

TestValues(bf) ==
    IF bf.kind = "ModuloBins" THEN (bf.rem - Margin)..(bf.rem + Margin)
    ELSE (bf.min - Margin)..(bf.max + Margin)

TestIds(bf) ==
    IF bf.kind = "ModuloBins" THEN (-Margin)..Margin
    ELSE (-Margin)..(bf.n_bins + Margin)

InitBin ==
    /\ CGCluster_init
    /\ binf \in ModuloTests \cup LinSpaceTests
    /\ bcall = NoBinCall
    /\ Pair_idle

CallValueToId ==
    \E value \in TestValues(binf) :
        \E idx \in {value_to_id(binf, value)} :
            /\ bcall' = [op |-> "value_to_id", value |-> value, idx |-> idx,
                         start |-> id_to_bin_start(binf, idx),
                         center |-> id_to_bin_center(binf, idx)]
            /\ UNCHANGED <<bin_functions, model, coarse_model, fine_model, cls, last, binf,
                         default_bins, wrappers, wlast>>

CallIdToBin ==
    \E idx \in TestIds(binf) :
        /\ bcall' = [op |-> "id_to_bin", value |-> 0, idx |-> idx,
                     start |-> id_to_bin_start(binf, idx),
                     center |-> id_to_bin_center(binf, idx)]
        /\ UNCHANGED <<bin_functions, model, coarse_model, fine_model, cls, last, binf,
                         default_bins, wrappers, wlast>>

NextBin ==
    \/ CallValueToId
    \/ CallIdToBin

SpecBin == InitBin /\ [][NextBin]_vars

\* Two wrappers, each constructed without arguments, used in any interleaving
InitPair ==
    /\ CGCluster_init
    /\ Harness_idle
    /\ default_bins = DefaultBins
    /\ wrappers \in [WrapperIds -> {Construct(c) : c \in Classes}]
    /\ wlast = NoPairCall

PairFitUniformCoarseGrain ==
    \E w \in WrapperIds, n_features \in FeatureCounts, bf \in AxisChoices :
        /\ get_num_axes(PairSelf(w).bins) + n_features <= MaxAxes
        /\ default_bins' = [default_bins EXCEPT ![wrappers[w].bins] =
                                fit_uniform_coarse_grain(@, n_features, bf)]
        /\ wrappers' = [wrappers EXCEPT ![w].used = TRUE]
        /\ wlast' = PairCall(w, "fit_uniform_coarse_grain", "none", NoArray)
        /\ UNCHANGED <<bin_functions, model, coarse_model, fine_model, cls, last,
                       binf, bcall>>

PairCoarseGrain ==
    \E w \in WrapperIds, X \in Samples :
        \E r \in {coarse_grain(PairSelf(w).bins, X)} :
            /\ default_bins' = [default_bins EXCEPT ![wrappers[w].bins] = r.bins]
            /\ wrappers' = [wrappers EXCEPT ![w].used = TRUE]
            /\ wlast' = PairCall(w, "coarse_grain", r.exc, X)
            /\ UNCHANGED <<bin_functions, model, coarse_model, fine_model, cls, last,
                           binf, bcall>>

PairFit ==
    \E w \in WrapperIds, X \in Samples :
        \E first \in FitOutcomes(wrappers[w].coarse_model) :
            \E r \in {IF wrappers[w].cls = "KMCalico"
                      THEN KMCalico_fit(PairSelf(w), X, first)
                      ELSE CGCluster_fit(PairSelf(w), X, first)} :
                /\ default_bins' = [default_bins EXCEPT ![wrappers[w].bins] = r.self.bins]
                /\ wrappers' = [wrappers EXCEPT ![w].model = r.self.model,
                                                ![w].coarse_model = r.self.coarse_model,
                                                ![w].fine_model = r.self.fine_model,
                                                ![w].used = TRUE]
                /\ wlast' = PairCall(w, "fit", r.exc, X)
                /\ UNCHANGED <<bin_functions, model, coarse_model, fine_model, cls, last,
                               binf, bcall>>

NextPair ==
    \/ PairFitUniformCoarseGrain
    \/ PairCoarseGrain
    \/ PairFit

SpecPair == InitPair /\ [][NextPair]_vars

-----------------------------------------------------------------------------
(* Claims *)

\* number of columns of an array, a 1-D array counting as one column
Columns(a) == IF a.ndim = 1 THEN 1 ELSE Len(a.data[1])

Rows(a) == Len(a.data)

PairwiseDistinct(a) ==
    \A i \in 1..Rows(a), j \in 1..Rows(a) : i # j => a.data[i] # a.data[j]

\* C1: after fit_uniform_coarse_grain(n_features, binf) the axis set consists of
\* exactly n_features entries, all equal to binf, whatever axes were held before.
C1_Overrides ==
    last.op = "fit_uniform_coarse_grain" =>
        /\ get_num_axes(bin_functions) = last.n
        /\ \A i \in 1..Len(bin_functions) : bin_functions[i] = last.binf

\* C2: fit(X) or coarse_grain(X) called with zero axes fills the axis set with exactly
\* n_features ModuloBins(mod=100, rem=0), raises nothing, and fit fits coarse_model
\* on the coarse centres of X under those axes.
C2_AutoFill ==
    (last.op \in {"fit", "coarse_grain"} /\ last.n_axes_before = 0) =>
        /\ last.exc = "none"
        /\ bin_functions = [i \in 1..Columns(last.X) |-> ModuloBins(100, 0)]
        /\ \A r \in 1..Rows(last.cg.ret) : \E x \in 1..Rows(last.X) :
               \A c \in 1..Columns(last.X) :
                   last.cg.ret.data[r][c] = 100 * (last.X.data[x][c] \div 100) + 50
        /\ \A x \in 1..Rows(last.X) : \E r \in 1..Rows(last.cg.ret) :
               \A c \in 1..Columns(last.X) :
                   last.cg.ret.data[r][c] = 100 * (last.X.data[x][c] \div 100) + 50
        /\ last.op = "fit" =>
               /\ last.calls = <<Call("coarse_model", "fit", last.cg.ret)>>
               /\ coarse_model.n_features_in_ = Columns(last.X)

C2_Witness ==
    /\ last.op = "fit"
    /\ last.n_axes_before = 0
    /\ Columns(last.X) = 2
    /\ Rows(last.X) = 2
    /\ get_num_axes(bin_functions) = 2

\* C3: coarse_grain(X) raises AmbiguousCGFunction exactly when 0 < k < n_features for k
\* configured axes, and then leaves the axes and every model as they were and computes
\* nothing; fit(X) passes the exception on without fitting.
C3_Ambiguous ==
    /\ [](last.op \in {"fit", "coarse_grain"} =>
            (last.exc = "AmbiguousCGFunction" <=>
                (0 < last.n_axes_before /\ last.n_axes_before < Columns(last.X))))
    /\ [][(last'.op \in {"fit", "coarse_grain"} /\ last'.exc = "AmbiguousCGFunction") =>
            /\ UNCHANGED <<bin_functions, model, coarse_model, fine_model>>
            /\ last'.cg.locals.x_grained_bins = NoArray
            /\ last'.cg.ret = NoArray
            /\ last'.calls = <<>>]_vars

C3_Witness ==
    /\ last.op = "coarse_grain"
    /\ last.exc = "AmbiguousCGFunction"
    /\ last.n_axes_before = 1
    /\ Columns(last.X) = 2

\* C4: the three matrix methods of Bins fail with the assertion exactly when the
\* input's column count (a 1-D input counting as one column) differs from the number
\* of axes, and coarse_grain(X) with more axes than X has features fails with the
\* assertion, not with AmbiguousCGFunction.
C4_ShapeContract ==
    /\ last.op \in {"Bins.value_to_id", "Bins.id_to_bin_start", "Bins.id_to_bin_center"} =>
           /\ last.exc \in {"none", "AssertionError"}
           /\ last.exc = "AssertionError" <=> Columns(last.X) # get_num_axes(bin_functions)
           /\ last.exc = "none" =>
                  /\ Rows(last.val) = Rows(last.X)
                  /\ Columns(last.val) = Columns(last.X)
    /\ (last.op = "coarse_grain" /\ last.n_axes_before > Columns(last.X)) =>
           last.exc = "AssertionError"

C4_Witness ==
    /\ last.op = "coarse_grain"
    /\ last.exc = "AssertionError"
    /\ bin_functions = <<ModuloBins(100, 0), ModuloBins(100, 0)>>
    /\ Columns(last.X) = 1

\* C8: when coarse_grain(X) succeeds it returns at most as many rows as X has, and
\* exactly as many if and only if no two rows of X have the same row of bin ids; the
\* rows returned are the centres of the pairwise distinct id rows.
C8_RowCount ==
    (last.op = "coarse_grain" /\ last.exc = "none") =>
        LET ids == Bins_value_to_id(bin_functions, last.X).val
            uniq == last.cg.locals.unique_bins
        IN  /\ Rows(last.val) <= Rows(last.X)
            /\ Rows(last.val) = Rows(last.X) <=> PairwiseDistinct(ids)
            /\ PairwiseDistinct(uniq)
            /\ RowSet(uniq) = RowSet(ids)
            /\ Rows(last.val) = Rows(uniq)
            /\ \A r \in 1..Rows(uniq), c \in 1..Columns(uniq) :
                   last.val.data[r][c] = id_to_bin_center(bin_functions[c], uniq.data[r][c])

C8_Witness ==
    /\ last.op = "coarse_grain"
    /\ last.exc = "none"
    /\ Rows(last.X) = 2
    /\ last.X.data[1] # last.X.data[2]
    /\ Rows(last.val) = 1

\* C5 (as stated): for LinSpaceBins(min, max, n_bins), value_to_id(min) = 0,
\* value_to_id(v) = n_bins for v > max, and value_to_id(max) <= n_bins - 1.
C5_MaxInLastBin ==
    (bcall.op = "value_to_id" /\ binf.kind = "LinSpaceBins") =>
        /\ bcall.value = binf.min => bcall.idx = 0
        /\ bcall.value > binf.max => bcall.idx = binf.n_bins
        /\ bcall.value = binf.max => bcall.idx <= binf.n_bins - 1

\* C5 (amended): for LinSpaceBins(min, max, n_bins) whose step is exact,
\* value_to_id(min) = 0, value_to_id(v) = n_bins for v > max, and value_to_id(max)
\* = n_bins too: max gets the overflow id, which id_to_bin_start and id_to_bin_center
\* map back onto the last bin.
C5_MaxGetsOverflowId ==
    (bcall.op = "value_to_id" /\ binf.kind = "LinSpaceBins") =>
        /\ bcall.value = binf.min => bcall.idx = 0
        /\ bcall.value > binf.max => bcall.idx = binf.n_bins
        /\ bcall.value = binf.max =>
               /\ bcall.idx = binf.n_bins
               /\ bcall.start = binf.max - binf.step
               /\ bcall.center = binf.max - (binf.step \div 2)

C5_Witness ==
    /\ bcall.op = "value_to_id"
    /\ binf.kind = "LinSpaceBins"
    /\ binf.n_bins = 3
    /\ bcall.value = binf.max

\* C6: for ModuloBins(mod, rem), value_to_id(v) = floor((v - rem) / mod) for every v,
\* so that id_to_bin_start(value_to_id(v)) <= v < id_to_bin_start(value_to_id(v)) + mod.
C6_FloorId ==
    (bcall.op = "value_to_id" /\ binf.kind = "ModuloBins") =>
        /\ bcall.idx = FloorDiv(bcall.value - binf.rem, binf.mod)
        /\ bcall.start <= bcall.value
        /\ bcall.value < bcall.start + binf.mod

\* C7: for LinSpaceBins(min, max, n) and min < v <= max, the centre c of v's bin
\* satisfies min <= c < max and |c - v| <= step, v = max included.
C7_CenterNearValue ==
    (/\ bcall.op = "value_to_id"
     /\ binf.kind = "LinSpaceBins"
     /\ binf.min < bcall.value
     /\ bcall.value <= binf.max) =>
        /\ binf.min <= bcall.center
        /\ bcall.center < binf.max
        /\ bcall.center - bcall.value <= binf.step
        /\ bcall.value - bcall.center <= binf.step

C7_Witness ==
    /\ bcall.op = "value_to_id"
    /\ binf.kind = "LinSpaceBins"
    /\ bcall.value = binf.max
    /\ bcall.idx >= binf.n_bins
    /\ bcall.center = binf.max - (binf.step \div 2)

\* C9: a successful KMCalico.fit(X) fits coarse_model on coarse_grain(X), reads its
\* cluster_centers_, sets fine_model's init to exactly those centres and fits fine_model
\* on X itself, in this order; and whenever coarse_model has been fit, fine_model's
\* init is the cluster_centers_ of coarse_model.
C9_Calico ==
    /\ (last.op = "fit" /\ last.exc = "none") =>
           /\ last.calls =
                  <<Call("coarse_model", "fit", last.cg.ret),
                    Call("coarse_model", "cluster_centers_", coarse_model.cluster_centers_),
                    Call("fine_model", "set_params(init)", coarse_model.cluster_centers_),
                    Call("fine_model", "fit", last.X)>>
           /\ last.X # last.cg.ret
           /\ coarse_model.cluster_centers_.data[1] \in RowSet(last.cg.ret)
           /\ coarse_model.n_features_in_ = Columns(last.X)
           /\ fine_model.n_features_in_ = Columns(last.X)
           /\ fine_model.cluster_centers_.data[1] \in RowSet(last.X)
    /\ coarse_model.n_features_in_ # 0 =>
           fine_model.init = InitArray(coarse_model.cluster_centers_)

C9_Witness ==
    /\ last.op = "fit"
    /\ last.exc = "none"
    /\ Rows(last.cg.ret) = 2
    /\ coarse_model.cluster_centers_.data[1] = last.cg.ret.data[2]
    /\ fine_model.init = InitArray(coarse_model.cluster_centers_)

\* C10 (as stated): in CGCluster the template model is never mutated, fit changes
\* coarse_model only, and predict in "default" mode leaves coarse_model unchanged.
C10_TemplateUntouched ==
    [][/\ model' = model
       /\ last'.op = "fit" => UNCHANGED <<model, fine_model>>
       /\ (last'.op \in {"predict", "scores"} /\ last'.mode = "default") =>
              coarse_model' = coarse_model]_vars

\* C10 (amended): in CGCluster fit changes coarse_model only and nothing else fits
\* coarse_model; predict and scores in "coarse" mode change no model; predict and
\* scores in "default" mode fit the template model on X (so its fitted state changes)
\* and leave coarse_model unchanged; nothing else changes the template model.
C10_DefaultFitsTemplate ==
    [][/\ last'.op = "fit" => UNCHANGED <<model, fine_model>>
       /\ (last'.op \in {"predict", "scores"} /\ last'.mode = "coarse") =>
              UNCHANGED <<model, coarse_model, fine_model>>
       /\ (last'.op \in {"predict", "scores"} /\ last'.mode = "default") =>
              /\ UNCHANGED <<coarse_model, fine_model>>
              /\ last'.calls = <<Call("model", "fit_predict", last'.X)>>
              /\ model'.n_features_in_ = Columns(last'.X)
       /\ model' # model =>
              (last'.op \in {"predict", "scores"} /\ last'.mode = "default")
       /\ coarse_model' # coarse_model => (last'.op = "fit" /\ last'.exc = "none")]_vars

C10_Witness ==
    /\ last.op = "predict"
    /\ last.mode = "default"
    /\ model.n_features_in_ = 2
    /\ coarse_model.n_features_in_ = 1

\* C11: two wrappers constructed without a bins argument share no axis state: a
\* call on one (fit, coarse_grain, fit_uniform_coarse_grain) leaves the axes the
\* other one sees as they were, so a wrapper none of whose methods has been called
\* yet still sees zero axes, and its first fit auto-fills one axis per column of
\* its own X and raises nothing.
C11_NoSharedAxes ==
    wlast.op # "init" =>
        /\ PairSelf(Other(wlast.w)).bins = wlast.other_before
        /\ wlast.fresh => wlast.n_axes_before = 0
        /\ (wlast.fresh /\ wlast.op = "fit") =>
              /\ wlast.exc = "none"
              /\ get_num_axes(PairSelf(wlast.w).bins) = Columns(wlast.X)

\* what the code does for two wrappers of different classes, whose defaults are two
\* Bins objects: the calls on one leave the other's axes alone
C11_DistinctClassesIsolated ==
    (wlast.op # "init" /\ wrappers[1].cls # wrappers[2].cls) =>
        PairSelf(Other(wlast.w)).bins = wlast.other_before

====
